---- MODULE Spec2Model ----
(***************************************************************************)
(* gojobqueue: a Queue is a Go channel of jobs (queue.go:19).  AddJob      *)
(* sends a job on the channel and turns the "send on closed channel"       *)
(* panic into a returned error, Close closes the channel, StartWorking     *)
(* spawns a goroutine that ranges over the channel and runs each job's     *)
(* transact and, when it returns an error, its rollback.                   *)
(*                                                                         *)
(* The channel is modelled with the state the Go runtime keeps for it: the *)
(* ring buffer, the closed flag, and the FIFO queues of parked senders and *)
(* parked receivers.  Each send, receive and close is one atomic step (the *)
(* runtime performs it under the channel lock); a goroutine woken by such  *)
(* a step resumes in a later step of its own.                              *)
(***************************************************************************)
EXTENDS Naturals, Sequences, FiniteSets

\* ---------------------------------------------------------------- bounds
MaxCapacity == 2      \* make(Queue, n) is explored for n in 0..MaxCapacity
MaxJobs     == 3      \* AddJob calls of one run
MaxWorkers  == 2      \* StartWorking calls of one run

Calls   == 1..MaxJobs
Workers == 1..MaxWorkers

\* ---------------------------------------------------------------- values
Nil       == "nil"                       \* the nil error
Errors    == {"err1", "err2"}            \* non-nil errors a transact returns
Panics    == "panic"                     \* a transact that panics (or is nil)
TransactOutcomes == {Nil, Panics} \cup Errors
NotRun    == "not run"                   \* the transact has not returned yet
NoJob     == 0
NoPanic   == [type |-> "none", msg |-> ""]
\* the panic values of the runtime's chansend and closechan
SendOnClosed  == [type |-> "runtime.Error", msg |-> "send on closed channel"]
CloseOfClosed == [type |-> "runtime.Error", msg |-> "close of closed channel"]
ErrClosed == SendOnClosed.msg
Pending   == "pending"                   \* AddJob has not returned yet

VARIABLES
  capacity,   \* cap(q), fixed by make(Queue, n)
  buf,        \* the channel's buffer: job ids, oldest first
  closed,     \* the channel's closed flag
  sendq,      \* AddJob calls parked in the channel's send queue, oldest first
  recvq,      \* workers parked in the channel's receive queue, oldest first
  result,     \* result[c]: what the transact of call c's job did
  apc,        \* apc[c]: where AddJob call c is
  ret,        \* ret[c]: what AddJob call c returned
  wpc,        \* wpc[w]: where worker goroutine w is
  wjob,       \* wjob[w]: the loop variable j of worker w
  werr,       \* werr[w]: the local err of worker w
  nstart,     \* history: StartWorking calls made
  enq,        \* history: job ids in the order their sends completed
  deq,        \* history: job ids in the order they were received
  trace,      \* history: calls the workers made, in order
  faults,     \* panics that escaped a function of the package
  crashed     \* an unrecovered panic ended the process

vars == <<capacity, buf, closed, sendq, recvq, result, apc, ret,
          wpc, wjob, werr, nstart, enq, deq, trace, faults, crashed>>

chan    == <<capacity, buf, closed, sendq, recvq>>
workerv == <<wpc, wjob, werr>>
callv   == <<result, apc, ret>>

\* ---------------------------------------------------------------- helpers
Range(s) == {s[i] : i \in 1..Len(s)}

Begun   == {c \in Calls : apc[c] # "new"}
Started == {w \in Workers : wpc[w] # "unstarted"}

\* r.(error) in AddJob's deferred function: the recovered value is returned
\* as err when its dynamic type implements error; runtime.Error does.
ImplementsError(r) == r.type \in {"error", "runtime.Error"}

\* (mutant) a deferred function that asserts r.(error) without testing r.
AddJobRecoverUnchecked(r) ==
  IF ImplementsError(r) THEN r.msg ELSE "panic: interface conversion"

\* What the deferred function of AddJob leaves in err for recovered value r.
AddJobRecover(r) ==
  IF r = NoPanic THEN Nil
  ELSE IF ImplementsError(r) THEN r.msg
  ELSE "panic: interface conversion"

\* ---------------------------------------------------------------- Init
Init ==
  /\ capacity \in 0..MaxCapacity
  /\ buf = <<>>
  /\ closed = FALSE
  /\ sendq = <<>>
  /\ recvq = <<>>
  /\ result = [c \in Calls |-> NotRun]
  /\ apc = [c \in Calls |-> "new"]
  /\ ret = [c \in Calls |-> Pending]
  /\ wpc = [w \in Workers |-> "unstarted"]
  /\ wjob = [w \in Workers |-> NoJob]
  /\ werr = [w \in Workers |-> Nil]
  /\ nstart = 0
  /\ enq = <<>>
  /\ deq = <<>>
  /\ trace = <<>>
  /\ faults = {}
  /\ crashed = FALSE

\* ---------------------------------------------------------------- AddJob
\* (mutant) the deferred function recovers but leaves err nil.
SendClosedSwallowed(c) ==
  /\ closed
  /\ apc' = [apc EXCEPT ![c] = "returned"]
  /\ ret' = [ret EXCEPT ![c] = Nil]
  /\ UNCHANGED <<chan, workerv, enq, deq>>

\* (mutant) a send that stores the job before it tests the closed flag.
SendClosedStored(c) ==
  /\ closed
  /\ buf' = IF Len(buf) < capacity THEN Append(buf, c) ELSE buf
  /\ apc' = [apc EXCEPT ![c] = "returned"]
  /\ ret' = [ret EXCEPT ![c] = AddJobRecover(SendOnClosed)]
  /\ UNCHANGED <<capacity, closed, sendq, recvq, workerv, enq, deq>>

\* q <- j on a closed channel: chansend panics, the deferred function
\* recovers and AddJob returns the panic value as err.
SendClosed(c) ==
  /\ closed
  /\ apc' = [apc EXCEPT ![c] = "returned"]
  /\ ret' = [ret EXCEPT ![c] = AddJobRecover(SendOnClosed)]
  /\ UNCHANGED <<chan, workerv, enq, deq>>

\* q <- j with a receiver parked: the job is handed to the oldest one.
SendHandoff(c) ==
  /\ ~closed
  /\ recvq # <<>>
  /\ LET w == Head(recvq) IN
       /\ recvq' = Tail(recvq)
       /\ wjob' = [wjob EXCEPT ![w] = c]
       /\ wpc' = [wpc EXCEPT ![w] = "got"]
  /\ enq' = Append(enq, c)
  /\ deq' = Append(deq, c)
  /\ apc' = [apc EXCEPT ![c] = "returned"]
  /\ ret' = [ret EXCEPT ![c] = AddJobRecover(NoPanic)]
  /\ UNCHANGED <<capacity, buf, closed, sendq, werr>>

\* (mutant) a buffer that takes one job more than its capacity.
SendBufferOffByOne(c) ==
  /\ ~closed
  /\ recvq = <<>>
  /\ Len(buf) <= capacity
  /\ buf' = Append(buf, c)
  /\ enq' = Append(enq, c)
  /\ apc' = [apc EXCEPT ![c] = "returned"]
  /\ ret' = [ret EXCEPT ![c] = AddJobRecover(NoPanic)]
  /\ UNCHANGED <<capacity, closed, sendq, recvq, workerv, deq>>

\* q <- j with room in the buffer.
SendBuffer(c) ==
  /\ ~closed
  /\ recvq = <<>>
  /\ Len(buf) < capacity
  /\ buf' = Append(buf, c)
  /\ enq' = Append(enq, c)
  /\ apc' = [apc EXCEPT ![c] = "returned"]
  /\ ret' = [ret EXCEPT ![c] = AddJobRecover(NoPanic)]
  /\ UNCHANGED <<capacity, closed, sendq, recvq, workerv, deq>>

\* (mutant) a send that gives up instead of waiting: the job is dropped and
\* AddJob returns nil.
SendParkDrop(c) ==
  /\ ~closed
  /\ recvq = <<>>
  /\ Len(buf) >= capacity
  /\ apc' = [apc EXCEPT ![c] = "returned"]
  /\ ret' = [ret EXCEPT ![c] = Nil]
  /\ UNCHANGED <<chan, workerv, enq, deq>>

\* q <- j with no receiver and no room: the caller parks in the send queue.
SendPark(c) ==
  /\ ~closed
  /\ recvq = <<>>
  /\ Len(buf) >= capacity
  /\ sendq' = Append(sendq, c)
  /\ apc' = [apc EXCEPT ![c] = "parked"]
  /\ UNCHANGED <<capacity, buf, closed, recvq, ret, workerv, enq, deq>>

ChanSend(c) ==
  \/ SendClosed(c)
  \/ SendHandoff(c)
  \/ SendBuffer(c)
  \/ SendPark(c)

\* A call of AddJob, up to the send's outcome.  Calls are numbered in the
\* order they begin, and a job carries the number of its call.
AddJob(c) ==
  /\ ~crashed
  /\ apc[c] = "new"
  /\ \A d \in Calls : d < c => apc[d] # "new"
  /\ ChanSend(c)
  /\ UNCHANGED <<result, nstart, trace, faults, crashed>>

\* A parked sender whose job a receiver took resumes: AddJob returns nil.
AddJobResume(c) ==
  /\ ~crashed
  /\ apc[c] = "woken"
  /\ apc' = [apc EXCEPT ![c] = "returned"]
  /\ ret' = [ret EXCEPT ![c] = AddJobRecover(NoPanic)]
  /\ UNCHANGED <<chan, result, workerv, nstart, enq, deq, trace, faults,
                 crashed>>

\* A parked sender woken by close panics; AddJob recovers and returns err.
AddJobPanic(c) ==
  /\ ~crashed
  /\ apc[c] = "panicking"
  /\ apc' = [apc EXCEPT ![c] = "returned"]
  /\ ret' = [ret EXCEPT ![c] = AddJobRecover(SendOnClosed)]
  /\ UNCHANGED <<chan, result, workerv, nstart, enq, deq, trace, faults,
                 crashed>>

\* ---------------------------------------------------------------- Close
\* (mutant) a close that sets the flag and leaves the parked senders parked.
CloseOpenNoWake ==
  /\ ~crashed
  /\ ~closed
  /\ closed' = TRUE
  /\ wpc' = [w \in Workers |->
               IF w \in Range(recvq) THEN "released" ELSE wpc[w]]
  /\ recvq' = <<>>
  /\ UNCHANGED <<capacity, buf, sendq, callv, wjob, werr, nstart, enq, deq,
                 trace, faults, crashed>>

\* (mutant) a close that drops the buffered jobs.
CloseOpenDiscard ==
  /\ ~crashed
  /\ ~closed
  /\ closed' = TRUE
  /\ buf' = <<>>
  /\ wpc' = [w \in Workers |->
               IF w \in Range(recvq) THEN "released" ELSE wpc[w]]
  /\ apc' = [c \in DOMAIN apc |->
               IF c \in Range(sendq) THEN "panicking" ELSE apc[c]]
  /\ sendq' = <<>>
  /\ recvq' = <<>>
  /\ UNCHANGED <<capacity, result, ret, wjob, werr, nstart, enq, deq,
                 trace, faults, crashed>>

\* close(q) on an open channel: sets closed, releases every parked receiver
\* (each sees the zero value and ok = false) and every parked sender (each
\* panics).
CloseOpen ==
  /\ ~crashed
  /\ ~closed
  /\ closed' = TRUE
  /\ wpc' = [w \in Workers |->
               IF w \in Range(recvq) THEN "released" ELSE wpc[w]]
  /\ apc' = [c \in DOMAIN apc |->
               IF c \in Range(sendq) THEN "panicking" ELSE apc[c]]
  /\ sendq' = <<>>
  /\ recvq' = <<>>
  /\ UNCHANGED <<capacity, buf, result, ret, wjob, werr, nstart, enq, deq,
                 trace, faults, crashed>>

\* (mutant) a second close that panics after it has emptied the buffer.
CloseClosedDiscard ==
  /\ ~crashed
  /\ closed
  /\ buf' = <<>>
  /\ faults' = faults \cup {CloseOfClosed.msg}
  /\ \E recovered \in BOOLEAN : crashed' = ~recovered
  /\ UNCHANGED <<capacity, closed, sendq, recvq, callv, workerv, nstart, enq,
                 deq, trace>>

\* close(q) on a closed channel panics; Close has no recover, so the panic
\* reaches the caller, which either recovers it or lets the process end.
CloseClosed ==
  /\ ~crashed
  /\ closed
  /\ faults' = faults \cup {CloseOfClosed.msg}
  /\ \E recovered \in BOOLEAN : crashed' = ~recovered
  /\ UNCHANGED <<chan, callv, workerv, nstart, enq, deq, trace>>

Close == CloseOpen \/ CloseClosed

\* ---------------------------------------------------------------- worker
\* (mutant) a StartWorking that spawns a goroutine for every worker left.
StartWorkingAll(w) ==
  /\ ~crashed
  /\ wpc[w] = "unstarted"
  /\ \A v \in Workers : v < w => wpc[v] # "unstarted"
  /\ wpc' = [v \in Workers |-> IF v >= w THEN "range" ELSE wpc[v]]
  /\ nstart' = nstart + 1
  /\ UNCHANGED <<chan, callv, wjob, werr, enq, deq, trace, faults, crashed>>

\* go workJobs(q): one more goroutine, about to receive.  Workers are
\* numbered in the order of the StartWorking calls.
StartWorking(w) ==
  /\ ~crashed
  /\ wpc[w] = "unstarted"
  /\ \A v \in Workers : v < w => wpc[v] # "unstarted"
  /\ wpc' = [wpc EXCEPT ![w] = "range"]
  /\ nstart' = nstart + 1
  /\ UNCHANGED <<chan, callv, wjob, werr, enq, deq, trace, faults, crashed>>

\* (mutant) a loop that ends as soon as the channel is closed.
RecvClosedEarly(w) ==
  /\ closed
  /\ wpc' = [wpc EXCEPT ![w] = "exited"]
  /\ wjob' = [wjob EXCEPT ![w] = NoJob]
  /\ UNCHANGED <<chan, apc, enq, deq>>

\* range q on a closed and empty channel: the loop ends.
RecvClosed(w) ==
  /\ closed
  /\ buf = <<>>
  /\ wpc' = [wpc EXCEPT ![w] = "exited"]
  /\ wjob' = [wjob EXCEPT ![w] = NoJob]
  /\ UNCHANGED <<chan, apc, enq, deq>>

\* (mutant) a receive that takes the parked sender's job and leaves the
\* sender asleep.
RecvFromSenderNoWake(w) ==
  /\ ~(closed /\ buf = <<>>)
  /\ sendq # <<>>
  /\ LET s == Head(sendq)
         taken == IF buf = <<>> THEN s ELSE Head(buf)
     IN
       /\ buf' = IF buf = <<>> THEN buf ELSE Append(Tail(buf), s)
       /\ sendq' = Tail(sendq)
       /\ enq' = Append(enq, s)
       /\ deq' = Append(deq, taken)
       /\ wjob' = [wjob EXCEPT ![w] = taken]
       /\ wpc' = [wpc EXCEPT ![w] = "got"]
  /\ UNCHANGED <<capacity, closed, recvq, apc>>

\* (mutant) a receive that stores the parked sender's job without having
\* freed the slot of the job it takes.
RecvFromSenderKeep(w) ==
  /\ ~(closed /\ buf = <<>>)
  /\ sendq # <<>>
  /\ LET s == Head(sendq)
         taken == IF buf = <<>> THEN s ELSE Head(buf)
     IN
       /\ buf' = IF buf = <<>> THEN buf ELSE Append(buf, s)
       /\ sendq' = Tail(sendq)
       /\ apc' = [apc EXCEPT ![s] = "woken"]
       /\ enq' = Append(enq, s)
       /\ deq' = Append(deq, taken)
       /\ wjob' = [wjob EXCEPT ![w] = taken]
       /\ wpc' = [wpc EXCEPT ![w] = "got"]
  /\ UNCHANGED <<capacity, closed, recvq>>

\* range q with a sender parked: the receiver takes the buffer's head (the
\* sender's own job when the channel is unbuffered), the oldest sender's job
\* goes to the buffer's tail, and that sender is made runnable.
RecvFromSender(w) ==
  /\ ~(closed /\ buf = <<>>)
  /\ sendq # <<>>
  /\ LET s == Head(sendq)
         taken == IF buf = <<>> THEN s ELSE Head(buf)
     IN
       /\ buf' = IF buf = <<>> THEN buf ELSE Append(Tail(buf), s)
       /\ sendq' = Tail(sendq)
       /\ apc' = [apc EXCEPT ![s] = "woken"]
       /\ enq' = Append(enq, s)
       /\ deq' = Append(deq, taken)
       /\ wjob' = [wjob EXCEPT ![w] = taken]
       /\ wpc' = [wpc EXCEPT ![w] = "got"]
  /\ UNCHANGED <<capacity, closed, recvq>>

\* (mutant) a receive that takes the newest job of the buffer.
RecvBufferLast(w) ==
  /\ sendq = <<>>
  /\ buf # <<>>
  /\ buf' = SubSeq(buf, 1, Len(buf) - 1)
  /\ deq' = Append(deq, buf[Len(buf)])
  /\ wjob' = [wjob EXCEPT ![w] = buf[Len(buf)]]
  /\ wpc' = [wpc EXCEPT ![w] = "got"]
  /\ UNCHANGED <<capacity, closed, sendq, recvq, apc, enq>>

\* (mutant) a receive that leaves the job it took in the buffer.
RecvBufferPeek(w) ==
  /\ sendq = <<>>
  /\ buf # <<>>
  /\ deq' = Append(deq, Head(buf))
  /\ wjob' = [wjob EXCEPT ![w] = Head(buf)]
  /\ wpc' = [wpc EXCEPT ![w] = "got"]
  /\ UNCHANGED <<capacity, buf, closed, sendq, recvq, apc, enq>>

\* range q with jobs buffered and no sender parked: takes the oldest job.
RecvBuffer(w) ==
  /\ sendq = <<>>
  /\ buf # <<>>
  /\ buf' = Tail(buf)
  /\ deq' = Append(deq, Head(buf))
  /\ wjob' = [wjob EXCEPT ![w] = Head(buf)]
  /\ wpc' = [wpc EXCEPT ![w] = "got"]
  /\ UNCHANGED <<capacity, closed, sendq, recvq, apc, enq>>

\* (mutant) a loop that ends when it finds the channel empty.
RecvParkExit(w) ==
  /\ ~closed
  /\ sendq = <<>>
  /\ buf = <<>>
  /\ wpc' = [wpc EXCEPT ![w] = "exited"]
  /\ UNCHANGED <<chan, wjob, apc, enq, deq>>

\* range q on an open, empty channel: the worker parks in the receive queue.
RecvPark(w) ==
  /\ ~closed
  /\ sendq = <<>>
  /\ buf = <<>>
  /\ recvq' = Append(recvq, w)
  /\ wpc' = [wpc EXCEPT ![w] = "parked"]
  /\ UNCHANGED <<capacity, buf, closed, sendq, wjob, apc, enq, deq>>

ChanRecv(w) ==
  \/ RecvClosed(w)
  \/ RecvFromSender(w)
  \/ RecvBuffer(w)
  \/ RecvPark(w)

\* for j := range q
WorkerReceive(w) ==
  /\ ~crashed
  /\ wpc[w] = "range"
  /\ ChanRecv(w)
  /\ UNCHANGED <<result, ret, werr, nstart, trace, faults, crashed>>

\* A receiver released by close resumes with ok = false: the loop ends.
WorkerReleased(w) ==
  /\ ~crashed
  /\ wpc[w] = "released"
  /\ wpc' = [wpc EXCEPT ![w] = "exited"]
  /\ UNCHANGED <<chan, callv, wjob, werr, nstart, enq, deq, trace, faults,
                 crashed>>

\* err := j.transact(): the call is made.
CallTransact(w) ==
  /\ ~crashed
  /\ wpc[w] = "got"
  /\ wpc' = [wpc EXCEPT ![w] = "transact"]
  /\ trace' = Append(trace, <<"transact", wjob[w]>>)
  /\ UNCHANGED <<chan, callv, wjob, werr, nstart, enq, deq, faults, crashed>>

\* (mutant) a loop without the err != nil test: rollback is always called.
TransactNilRollback(w, r) ==
  /\ r = Nil
  /\ werr' = [werr EXCEPT ![w] = r]
  /\ wpc' = [wpc EXCEPT ![w] = "rollback"]
  /\ trace' = Append(trace, <<"rollback", wjob[w], r>>)
  /\ UNCHANGED <<wjob, faults, crashed>>

\* j.transact() returned nil: next iteration.
TransactNil(w, r) ==
  /\ r = Nil
  /\ werr' = [werr EXCEPT ![w] = Nil]
  /\ wjob' = [wjob EXCEPT ![w] = NoJob]
  /\ wpc' = [wpc EXCEPT ![w] = "range"]
  /\ UNCHANGED <<trace, faults, crashed>>

\* (mutant) rollback is called with nil instead of the error.
TransactErrNilArg(w, r) ==
  /\ r \in Errors
  /\ werr' = [werr EXCEPT ![w] = r]
  /\ wpc' = [wpc EXCEPT ![w] = "rollback"]
  /\ trace' = Append(trace, <<"rollback", wjob[w], Nil>>)
  /\ UNCHANGED <<wjob, faults, crashed>>

\* (mutant) a failed transact that is logged and skipped: no rollback.
TransactErrNoRollback(w, r) ==
  /\ r \in Errors
  /\ wpc' = [wpc EXCEPT ![w] = "range"]
  /\ wjob' = [wjob EXCEPT ![w] = NoJob]
  /\ UNCHANGED <<werr, trace, faults, crashed>>

\* j.transact() returned err != nil: j.rollback(err) is called.
TransactErr(w, r) ==
  /\ r \in Errors
  /\ werr' = [werr EXCEPT ![w] = r]
  /\ wpc' = [wpc EXCEPT ![w] = "rollback"]
  /\ trace' = Append(trace, <<"rollback", wjob[w], r>>)
  /\ UNCHANGED <<wjob, faults, crashed>>

\* j.transact() panicked: workJobs has no recover, the process ends.
TransactPanic(w, r) ==
  /\ r = Panics
  /\ faults' = faults \cup {"panic in transact"}
  /\ crashed' = TRUE
  /\ UNCHANGED <<wpc, wjob, werr, trace>>

\* The transact of worker w's job comes back with outcome r.
TransactReturn(w, r) ==
  /\ ~crashed
  /\ wpc[w] = "transact"
  /\ result' = [result EXCEPT ![wjob[w]] = r]
  /\ \/ TransactNil(w, r)
     \/ TransactErr(w, r)
     \/ TransactPanic(w, r)
  /\ UNCHANGED <<chan, apc, ret, nstart, enq, deq>>

\* (mutant) a loop that returns after the first rollback.
RollbackReturnExit(w) ==
  /\ ~crashed
  /\ wpc[w] = "rollback"
  /\ wpc' = [wpc EXCEPT ![w] = "exited"]
  /\ werr' = [werr EXCEPT ![w] = Nil]
  /\ wjob' = [wjob EXCEPT ![w] = NoJob]
  /\ UNCHANGED <<chan, callv, nstart, enq, deq, trace, faults, crashed>>

\* (mutant) a loop that queues the failed job again after its rollback.
RollbackReturnRequeue(w) ==
  /\ ~crashed
  /\ wpc[w] = "rollback"
  /\ wpc' = [wpc EXCEPT ![w] = "range"]
  /\ werr' = [werr EXCEPT ![w] = Nil]
  /\ wjob' = [wjob EXCEPT ![w] = NoJob]
  /\ buf' = IF closed \/ Len(buf) >= capacity THEN buf
            ELSE Append(buf, wjob[w])
  /\ UNCHANGED <<capacity, closed, sendq, recvq, callv, nstart, enq, deq,
                 trace, faults, crashed>>

\* j.rollback(err) returned: next iteration.
RollbackReturn(w) ==
  /\ ~crashed
  /\ wpc[w] = "rollback"
  /\ wpc' = [wpc EXCEPT ![w] = "range"]
  /\ werr' = [werr EXCEPT ![w] = Nil]
  /\ wjob' = [wjob EXCEPT ![w] = NoJob]
  /\ UNCHANGED <<chan, callv, nstart, enq, deq, trace, faults, crashed>>

\* j.rollback(err) panicked: the process ends.
RollbackPanic(w) ==
  /\ ~crashed
  /\ wpc[w] = "rollback"
  /\ faults' = faults \cup {"panic in rollback"}
  /\ crashed' = TRUE
  /\ UNCHANGED <<chan, callv, workerv, nstart, enq, deq, trace>>

workJobs(w) ==
  \/ WorkerReceive(w)
  \/ WorkerReleased(w)
  \/ CallTransact(w)
  \/ \E r \in TransactOutcomes : TransactReturn(w, r)
  \/ RollbackReturn(w)
  \/ RollbackPanic(w)

\* ---------------------------------------------------------------- Spec
Next ==
  \/ \E c \in Calls : AddJob(c)
  \/ \E c \in Calls : AddJobResume(c)
  \/ \E c \in Calls : AddJobPanic(c)
  \/ Close
  \/ \E w \in Workers : StartWorking(w)
  \/ \E w \in Workers : workJobs(w)

Spec == Init /\ [][Next]_vars

\* The runs in which every transact and rollback returns and Close is called
\* on an open queue only; the Go scheduler runs every runnable goroutine, so
\* each worker's next step, and the return of each caller made runnable, is
\* taken when it stays possible.
Returning == {Nil} \cup Errors

workJobsLive(w) ==
  \/ WorkerReceive(w)
  \/ WorkerReleased(w)
  \/ CallTransact(w)
  \/ \E r \in Returning : TransactReturn(w, r)
  \/ RollbackReturn(w)

NextLive ==
  \/ \E c \in Calls : AddJob(c)
  \/ \E c \in Calls : AddJobResume(c)
  \/ \E c \in Calls : AddJobPanic(c)
  \/ CloseOpen
  \/ \E w \in Workers : StartWorking(w)
  \/ \E w \in Workers : workJobsLive(w)

LiveSpec ==
  /\ Init
  /\ [][NextLive]_vars
  /\ \A w \in Workers : WF_vars(workJobsLive(w))
  /\ \A c \in Calls : WF_vars(AddJobResume(c) \/ AddJobPanic(c))

\* ---------------------------------------------------------------- scenario
\* One caller program: AddJob for J1, J2 and J3, where J1 and J3 succeed and
\* J2 fails with err1, then StartWorking, then Close, then AddJob for a
\* fourth job.  A call is made once the calls before it have been made; the
\* capacity is the scenario's 2, or 3, which holds the three jobs.
ScenarioJobs    == {1, 2, 3}
ScenarioCalls   == ScenarioJobs \cup {4}
ScenarioOutcome == <<Nil, "err1", Nil>>
ScenarioTrace   ==
  << <<"transact", 1>>, <<"transact", 2>>, <<"rollback", 2, "err1">>,
     <<"transact", 3>> >>

ScenarioInit ==
  /\ capacity \in {2, 3}
  /\ buf = <<>>
  /\ closed = FALSE
  /\ sendq = <<>>
  /\ recvq = <<>>
  /\ result = [c \in ScenarioCalls |-> NotRun]
  /\ apc = [c \in ScenarioCalls |-> "new"]
  /\ ret = [c \in ScenarioCalls |-> Pending]
  /\ wpc = [w \in Workers |-> "unstarted"]
  /\ wjob = [w \in Workers |-> NoJob]
  /\ werr = [w \in Workers |-> Nil]
  /\ nstart = 0
  /\ enq = <<>>
  /\ deq = <<>>
  /\ trace = <<>>
  /\ faults = {}
  /\ crashed = FALSE

ScenarioEnqueue == \E c \in ScenarioJobs : AddJob(c)

ScenarioStart ==
  /\ \A c \in ScenarioJobs : apc[c] # "new"
  /\ nstart = 0
  /\ StartWorking(1)

ScenarioClose ==
  /\ nstart = 1
  /\ CloseOpen

ScenarioFourth ==
  /\ closed
  /\ AddJob(4)

ScenarioWork ==
  \/ WorkerReceive(1)
  \/ WorkerReleased(1)
  \/ CallTransact(1)
  \/ wpc[1] = "transact" /\ TransactReturn(1, ScenarioOutcome[wjob[1]])
  \/ RollbackReturn(1)

ScenarioNext ==
  \/ ScenarioEnqueue
  \/ \E c \in ScenarioCalls : AddJobResume(c)
  \/ \E c \in ScenarioCalls : AddJobPanic(c)
  \/ ScenarioStart
  \/ ScenarioClose
  \/ ScenarioFourth
  \/ ScenarioWork

ScenarioSpec == ScenarioInit /\ [][ScenarioNext]_vars

ScenarioDone == ~ENABLED ScenarioNext

\* ---------------------------------------------------------------- histories
IsPrefix(s, t) == Len(s) <= Len(t) /\ \A i \in 1..Len(s) : s[i] = t[i]

\* The positions of the trace where kind(job, ...) was called.
Events(kind, c) ==
  {i \in 1..Len(trace) : trace[i][1] = kind /\ trace[i][2] = c}

\* The job ids of the transact calls, in the order the calls were made.
TransactCalls == SelectSeq(trace, LAMBDA e : e[1] = "transact")
TransactOrder == [i \in 1..Len(TransactCalls) |-> TransactCalls[i][2]]

\* Where a job can be: in a slot of the channel's buffer, in the loop
\* variable j of a worker, or past the end of the iteration that ran it.
InBuffer == Range(buf)
Held     == {wjob[w] : w \in Workers} \ {NoJob}
Finished == {c \in Calls : result[c] # NotRun /\ c \notin Held}

NoRepeat(s) == \A i, k \in 1..Len(s) : s[i] = s[k] => i = k

Executing == {w \in Workers : wpc[w] \in {"transact", "rollback"}}

\* ---------------------------------------------------------------- claims

\* C1: FIFO.  Jobs are received in the order their sends completed (the n-th
\* job dequeued is the n-th job enqueued), whatever the number of concurrent
\* AddJob callers; and the worker of the queue (one StartWorking call) calls
\* the transacts in that same order, every received job but possibly the
\* one just received having been started.
FifoOrder ==
  /\ IsPrefix(deq, enq)
  /\ nstart <= 1 =>
       /\ IsPrefix(TransactOrder, deq)
       /\ Len(deq) <= Len(TransactOrder) + 1

\* C1 witness: one worker has run three jobs of a queue of capacity 1, so
\* that one of the AddJob calls could only complete after a receive.
FifoOrderWitness ==
  /\ nstart = 1
  /\ capacity = 1
  /\ Len(TransactOrder) = 3
  /\ \A c \in 1..3 : ret[c] = Nil

\* C2: closed queue.  An AddJob call that sends on a closed queue returns
\* the "send on closed channel" error in that same step, as a value: nothing
\* is inserted, no panic escapes; and a job whose call returned that error
\* is neither enqueued nor buffered.
ClosedQueueStep ==
  \A c \in Calls :
    /\ (closed /\ apc[c] = "new" /\ apc'[c] # "new") =>
         /\ apc'[c] = "returned"
         /\ ret'[c] = ErrClosed
         /\ buf' = buf /\ enq' = enq /\ sendq' = sendq
         /\ faults' = faults /\ crashed' = crashed
    /\ ret'[c] = ErrClosed => c \notin Range(enq') \cup Range(buf')

ClosedQueue == [][ClosedQueueStep]_vars

\* C2 witness: a call returned the error although the buffer has free slots
\* and was never full (no worker ever ran, so nothing was ever received).
ClosedQueueWitness ==
  /\ closed
  /\ Started = {}
  /\ capacity = 2
  /\ Len(buf) = 1
  /\ \E c \in Calls : ret[c] = ErrClosed

\* C3: Close with producers blocked.  The step that closes the queue wakes
\* every parked AddJob call into the panic of its send; such a call can only
\* go on to return the "send on closed channel" error, and its job is never
\* enqueued, buffered, received or run.
CloseWakesStep ==
  /\ (~closed /\ closed') =>
       \A c \in Range(sendq) : apc'[c] = "panicking"
  /\ \A c \in Calls :
       apc[c] = "panicking" =>
         /\ apc'[c] \in {"panicking", "returned"}
         /\ apc'[c] = "returned" => ret'[c] = ErrClosed
         /\ c \notin Range(enq') \cup Range(buf') \cup Range(deq')
         /\ Events("transact", c)' = {} /\ Events("rollback", c)' = {}
         /\ \A w \in Workers : wjob'[w] # c

CloseWakes == [][CloseWakesStep]_vars

\* C3 witness: Close found two calls parked and released both into the
\* panic of their sends.
CloseWakesWitness ==
  \E c, d \in Calls :
    /\ apc[c] = "panicking"
    /\ apc[d] = "panicking"
    /\ c # d

\* C4: compensation.  When the transact of a worker's job returns an error
\* E, that step calls the same job's rollback with E; over the whole run a
\* job's rollback is called at most once, exactly once when its transact
\* returned an error, and always with that error; and while the rollback of
\* the queue's worker (one StartWorking call) runs, no transact is called.
CompensationStep ==
  /\ \A w \in Workers :
       (wpc[w] = "transact" /\ wpc'[w] # "transact"
          /\ result'[wjob[w]] \in Errors) =>
         /\ wpc'[w] = "rollback"
         /\ wjob'[w] = wjob[w]
         /\ werr'[w] = result'[wjob[w]]
         /\ trace' = Append(trace, <<"rollback", wjob[w], result'[wjob[w]]>>)
  /\ \A c \in Calls :
       /\ Cardinality(Events("rollback", c)') <= 1
       /\ result'[c] \in Errors <=> Events("rollback", c)' # {}
       /\ \A i \in Events("rollback", c)' : trace'[i][3] = result'[c]
  /\ \A w \in Workers :
       (wpc[w] = "rollback" /\ wpc'[w] = "rollback"
          /\ nstart' <= 1) => trace' = trace

Compensation == [][CompensationStep]_vars

\* C4 witness: the first job failed with err2 and was rolled back with it,
\* the rollback returned, and the one worker has called the next transact.
CompensationWitness ==
  /\ nstart = 1
  /\ Len(trace) >= 3
  /\ trace[1] = <<"transact", 1>>
  /\ trace[2] = <<"rollback", 1, "err2">>
  /\ trace[3] = <<"transact", 2>>

\* C6: capacity.  On an open queue of capacity C on which no worker was
\* started, the first C AddJob calls have returned nil with their jobs in
\* the buffer, and every later call is parked with its job not inserted; a
\* parked call leaves the send queue only in a step in which a worker
\* receives a job or the queue is closed.
CapacityStep ==
  /\ (Started' = {} /\ ~closed') =>
       \A c \in Begun' :
         IF c <= capacity'
           THEN apc'[c] = "returned" /\ ret'[c] = Nil /\ buf'[c] = c
           ELSE /\ apc'[c] = "parked" /\ ret'[c] = Pending
                /\ c \in Range(sendq')
                /\ c \notin Range(enq') \cup Range(buf')
  /\ Len(buf') <= capacity'
  /\ \A c \in Calls :
       (apc[c] = "parked" /\ apc'[c] # "parked") =>
         \/ ~closed /\ closed' /\ apc'[c] = "panicking"
         \/ /\ Len(deq') = Len(deq) + 1
            /\ apc'[c] = "woken"
            /\ \E w \in Workers : wpc[w] = "range" /\ wpc'[w] = "got"

Capacity == [][CapacityStep]_vars

\* C6 witness: capacity 2, no worker, two calls returned nil and the third
\* is parked.
CapacityWitness ==
  /\ capacity = 2
  /\ Started = {}
  /\ ~closed
  /\ ret[1] = Nil /\ ret[2] = Nil
  /\ apc[3] = "parked"

AtMostOnce ==
  /\ \A c \in Calls :
       /\ Cardinality(Events("transact", c)) <= 1
       /\ Cardinality(Events("rollback", c)) <= 1
       /\ Events("transact", c) # {} => c \in Range(deq)
       /\ c \in Range(deq) => c \notin Range(buf)
       /\ Cardinality({w \in Workers : wjob[w] = c}) <= 1
  /\ NoRepeat(enq)
  /\ NoRepeat(deq)
  /\ NoRepeat(buf)
  /\ Range(deq) \cup Range(buf) \subseteq Range(enq)

\* C8 witness: two workers are inside transacts of different jobs.
AtMostOnceWitness ==
  \E v, w \in Workers :
    /\ v # w
    /\ wpc[v] = "transact"
    /\ wpc[w] = "transact"
    /\ Len(TransactOrder) = 3

\* C9: no compensation on success.  A job whose transact returned nil has no
\* rollback call; a rollback call of a job comes after the transact call of
\* that job and is the last call made for it.
NoCompensationOnSuccess ==
  \A c \in Calls :
    /\ result[c] = Nil => Events("rollback", c) = {}
    /\ \A i \in Events("rollback", c) :
         /\ \E k \in Events("transact", c) : k < i
         /\ \A k \in (i + 1)..Len(trace) : trace[k][2] # c

\* C9 witness: job 1 was rolled back, job 2 succeeded, job 3 is running.
NoCompensationOnSuccessWitness ==
  /\ result[1] \in Errors
  /\ result[2] = Nil
  /\ Events("transact", 3) # {}

\* C10: Close keeps the buffered jobs.  The step that closes the queue
\* leaves the buffer, the capacity and every job where they were, and no
\* step opens a closed queue.
CloseKeepsStep ==
  /\ (~closed /\ closed') =>
       /\ buf' = buf
       /\ capacity' = capacity
       /\ <<enq', deq', trace', result', wjob', ret'>>
            = <<enq, deq, trace, result, wjob, ret>>
  /\ closed => closed'

CloseKeeps == [][CloseKeepsStep]_vars

\* C10 witness: a closed queue with two jobs still in its buffer.
CloseKeepsWitness == closed /\ Len(buf) = 2

\* C5: drain to completion (runs in which every transact and rollback
\* returns, workers scheduled fairly).  Once the queue is closed and a
\* worker was started, before or after Close, the run reaches a state in
\* which every started worker has ended its loop and every enqueued job has
\* been run to its end; workers that have all ended leave no enqueued job
\* unrun, and the worker of the queue (one StartWorking call) ran the jobs
\* in the order they were enqueued.
AllExited == Started # {} /\ \A w \in Started : wpc[w] = "exited"

AllRun ==
  /\ buf = <<>>
  /\ deq = enq
  /\ \A c \in Range(enq) : result[c] # NotRun /\ Events("transact", c) # {}
  /\ Executing = {}

DrainToCompletion ==
  /\ [](AllExited => AllRun /\ closed)
  /\ [](AllExited /\ nstart = 1 => TransactOrder = enq)
  /\ (closed /\ Started # {}) ~> (AllExited /\ AllRun)

\* C5 witness: the queue is closed with a job still buffered, and a worker
\* that was started is inside the transact of an earlier job.
DrainToCompletionWitness ==
  /\ closed
  /\ Len(buf) >= 1
  /\ \E w \in Workers : wpc[w] = "transact" /\ wjob[w] < Head(buf)

\* C11: the worker leaves its loop only when the queue is closed and
\* drained.  A worker that has left the loop, or was released to leave it,
\* sees a closed queue with an empty buffer; a worker that finds the queue
\* open and empty parks; a parked worker is in the receive queue of an open,
\* empty queue and leaves it only released by close or holding the job that
\* an AddJob call has just handed to it.
WorkerExitStep ==
  \A w \in Workers :
    /\ wpc'[w] \in {"released", "exited"} => closed' /\ buf' = <<>>
    /\ wpc'[w] = "parked" =>
         ~closed' /\ buf' = <<>> /\ w \in Range(recvq')
    /\ (wpc[w] = "range" /\ wpc'[w] # "range"
          /\ ~closed /\ buf = <<>> /\ sendq = <<>>) => wpc'[w] = "parked"
    /\ (wpc[w] = "parked" /\ wpc'[w] # "parked") =>
         \/ ~closed /\ closed' /\ wpc'[w] = "released"
         \/ /\ wpc'[w] = "got"
            /\ wjob'[w] \notin Range(enq)
            /\ enq' = Append(enq, wjob'[w])
            /\ ret'[wjob'[w]] = Nil

WorkerExit == [][WorkerExitStep]_vars

\* C11 witness: the one worker has run a job and is parked again on the
\* open, empty queue.
WorkerExitWitness ==
  /\ nstart = 1
  /\ ~closed
  /\ Len(TransactOrder) >= 1
  /\ \E w \in Workers : wpc[w] = "parked"

\* What the scenario is said to produce: the calls made are exactly
\* J1.transact, J2.transact, J2.rollback(err1), J3.transact in this order,
\* the three AddJob calls return nil, the worker then leaves its loop, and
\* the fourth AddJob, made after Close, returns the queue-closed error at
\* once and its job is never queued; when nothing is left to do, all of it
\* has happened.
ScenarioRun ==
  /\ IsPrefix(trace, ScenarioTrace)
  /\ \A c \in ScenarioJobs : ret[c] \in {Pending, Nil}
  /\ wpc[1] = "exited" => trace = ScenarioTrace
  /\ apc[4] # "new" =>
       apc[4] = "returned" /\ ret[4] = ErrClosed /\ 4 \notin Range(enq)
  /\ ScenarioDone =>
       /\ trace = ScenarioTrace
       /\ wpc[1] = "exited"
       /\ \A c \in ScenarioJobs : ret[c] = Nil
       /\ ret[4] = ErrClosed

\* C12 as stated: with capacity 2 the scenario produces exactly that run.
ScenarioAsStated == capacity = 2 => ScenarioRun

\* C12: with a capacity that holds the three jobs, 3, the scenario produces
\* exactly the trace J1.transact, J2.transact, J2.rollback(err1),
\* J3.transact, the worker exits, and the fourth AddJob returns the
\* queue-closed error at once.
ScenarioHolds == capacity = 3 => ScenarioRun

\* C12 witness: the scenario has run to its end with capacity 3: the four
\* calls were traced, the worker exited, the fourth AddJob was refused.
ScenarioHoldsWitness ==
  /\ capacity = 3
  /\ ScenarioDone
  /\ trace = ScenarioTrace
  /\ wpc[1] = "exited"
  /\ ret[4] = ErrClosed

\* C13: closure is the only enqueue failure.  AddJob returns nil or the
\* queue-closed error and nothing else; it returns the error only when the
\* queue is closed by the time it returns, so never on a queue still open; a
\* value once returned stays; and the step in which a job's transact comes
\* back, with nil or with an error, changes no call's return value.
EnqueueFailureStep ==
  /\ \A c \in Calls :
       /\ ret'[c] \in {Pending, Nil, ErrClosed}
       /\ ret'[c] = ErrClosed => closed'
       /\ ret[c] # Pending => ret'[c] = ret[c]
  /\ result' # result => ret' = ret

EnqueueFailure == [][EnqueueFailureStep]_vars

\* C13 witness: on an open queue a job's transact has failed, and the call
\* that queued it and another call have returned nil.
EnqueueFailureWitness ==
  /\ ~closed
  /\ \E c, d \in Calls :
       /\ c # d
       /\ result[c] \in Errors
       /\ ret[c] = Nil
       /\ ret[d] = Nil

\* C14: capacity 0 is a synchronous handoff.  On an unbuffered queue the
\* buffer never holds a job; every job that entered the queue was received
\* by a worker in the same step; a call that returned nil, or was woken to
\* return it, has its job received by a worker; a call blocked in the send
\* has returned nothing and its job is not in the queue; a call leaves the
\* send otherwise only with the queue closed; and with no worker started and
\* the queue open every call made is blocked.
SyncHandoff ==
  capacity = 0 =>
    /\ buf = <<>>
    /\ deq = enq
    /\ \A c \in Calls :
         /\ (ret[c] = Nil \/ apc[c] = "woken") => c \in Range(deq)
         /\ apc[c] = "parked" => ret[c] = Pending /\ c \notin Range(enq)
         /\ (apc[c] = "panicking" \/ ret[c] = ErrClosed) => closed
         /\ apc[c] = "returned" => ret[c] \in {Nil, ErrClosed}
    /\ (nstart = 0 /\ ~closed) => \A c \in Begun : apc[c] = "parked"

\* C14 witness: on an unbuffered queue one call has returned nil, its job is
\* in the hands of a worker, and a later call is blocked in its send.
SyncHandoffWitness ==
  /\ capacity = 0
  /\ \E c, d \in Calls, w \in Workers :
       /\ ret[c] = Nil
       /\ wjob[w] = c
       /\ apc[d] = "parked"

\* C15: once StartWorking has been called, every job whose AddJob returned
\* nil eventually has its transact called, whether the queue is closed or
\* not, when the workers are scheduled and transact and rollback return.
EventuallyExecuted ==
  \A c \in Calls :
    (nstart >= 1 /\ ret[c] = Nil) ~> (Events("transact", c) # {})

\* C15 witness: a worker was started, the queue was never closed, and the
\* transact of every job has been called after its AddJob returned nil.
EventuallyExecutedWitness ==
  /\ nstart >= 1
  /\ ~closed
  /\ \A c \in Calls : ret[c] = Nil /\ Events("transact", c) # {}

\* C16: a failed enqueue has no effect.  The step in which AddJob returns
\* the queue-closed error leaves the buffer and the closed flag as they
\* were; the job of such a call is at no time in the buffer or with a
\* worker, and its transact and rollback are never called.
FailedEnqueueStep ==
  \A c \in Calls :
    /\ (ret[c] # ErrClosed /\ ret'[c] = ErrClosed) =>
         /\ buf' = buf
         /\ closed' = closed
         /\ closed
         /\ enq' = enq
    /\ ret'[c] = ErrClosed =>
         /\ c \notin Range(buf') \cup Range(enq') \cup Range(deq')
         /\ \A w \in Workers : wjob'[w] # c
         /\ Events("transact", c)' = {}
         /\ Events("rollback", c)' = {}
         /\ result'[c] = NotRun

FailedEnqueue == [][FailedEnqueueStep]_vars

\* C16 witness: a call has returned the queue-closed error while jobs are
\* in the buffer and a worker is inside a transact.
FailedEnqueueWitness ==
  /\ buf # <<>>
  /\ \E c \in Calls : ret[c] = ErrClosed
  /\ \E w \in Workers : wpc[w] = "transact"

\* C17: the buffer is bounded.  After every step the buffer holds between 0
\* and capacity jobs, and no step changes the capacity.
BoundedBufferStep ==
  /\ capacity' = capacity
  /\ Len(buf') >= 0
  /\ Len(buf') <= capacity'

BoundedBuffer == [][BoundedBufferStep]_vars

\* C17 witness: the buffer of a buffered queue is full, a sender waits for
\* room, and a worker has already received a job.
BoundedBufferWitness ==
  /\ capacity >= 1
  /\ Len(buf) = capacity
  /\ sendq # <<>>
  /\ deq # <<>>

\* C18: every AddJob call made eventually returns once a worker has been
\* started, or once the queue is closed, when the goroutines are scheduled
\* and transact and rollback return; and a call blocked in its send stays
\* blocked, with nothing returned, over every step that leaves the queue
\* without a worker and open.
BlockedStays ==
  \A c \in Calls :
    (apc[c] = "parked" /\ nstart' = 0 /\ ~closed') =>
      apc'[c] = "parked" /\ ret'[c] = Pending

AddJobReturns ==
  /\ \A c \in Calls :
       (apc[c] # "new" /\ (nstart >= 1 \/ closed)) ~> (apc[c] = "returned")
  /\ [][BlockedStays]_vars

\* C18 witness: a worker's receive has released a blocked call, which is
\* about to return, while a later call is still blocked.
AddJobReturnsWitness ==
  \E c, d \in Calls :
    /\ apc[c] = "woken"
    /\ apc[d] = "parked"
    /\ nstart >= 1

\* C19: double close.  The fault "close of closed channel" is raised only
\* by a step taken on a closed queue; it escapes Close (it is recorded as a
\* fault, and no call's return value changes); and the step leaves the queue
\* closed and the buffer, the waiting queues, the jobs held by workers and
\* the record of the jobs queued and received as they were.
DoubleCloseFault ==
  \/ CloseOfClosed.msg \in faults' /\ CloseOfClosed.msg \notin faults
  \/ crashed' /\ ~crashed /\ faults' = faults

DoubleCloseStep ==
  DoubleCloseFault =>
    /\ closed
    /\ closed'
    /\ CloseOfClosed.msg \in faults'
    /\ buf' = buf
    /\ UNCHANGED <<capacity, sendq, recvq, callv, workerv, enq, deq, trace>>

DoubleClose == [][DoubleCloseStep]_vars

\* C19 witness: Close was called on a closed queue with jobs in its buffer:
\* the fault was raised and the jobs are still there.
DoubleCloseWitness ==
  /\ closed
  /\ CloseOfClosed.msg \in faults
  /\ Len(buf) >= 2

\* C20: job conservation.  The jobs whose send succeeded, among them every
\* job whose AddJob returned nil, are exactly the jobs in the buffer, the
\* jobs held by a worker and the finished jobs; the three groups are
\* pairwise disjoint, no job is twice in the buffer and no job is held by
\* two workers.
Conservation ==
  /\ \A c \in Calls : ret[c] = Nil => c \in Range(enq)
  /\ Range(enq) = InBuffer \cup Held \cup Finished
  /\ InBuffer \cap Held = {}
  /\ InBuffer \cap Finished = {}
  /\ Held \cap Finished = {}
  /\ NoRepeat(buf)
  /\ \A w, v \in Workers : (wjob[w] = wjob[v] /\ w # v) => wjob[w] = NoJob

\* C20 witness: with two workers started, one job is finished, one is held
\* by a worker and one is in the buffer.
ConservationWitness ==
  /\ nstart >= 2
  /\ InBuffer # {}
  /\ Held # {}
  /\ Finished # {}

====
